---- MODULE Spec2Model ----
(***************************************************************************)
(* Consent-gated event tracking pipeline of data-snack-v3.                 *)
(*                                                                         *)
(* Client: DataSnackSDK (capture queue, consent gating, flush and retry).  *)
(* Domain: User entity (consent grant / revoke).                           *)
(* Server: ServerTracker.handleTrackingRequest / trackBatch (one row per   *)
(* event of every batch that reaches the server).                          *)
(***************************************************************************)
EXTENDS Integers, Sequences, FiniteSets, TLC

(***************************************************************************)
(* Bounds of the model                                                     *)
(***************************************************************************)
\* number of events one run may create (event ids are 1..MaxEvents)
MaxEvents == 4
\* configured batchSize of the SDK instance
BatchSize == 3
\* cap of User.profile.totalXp, in addXp calls
MaxXpSteps == 3
\* the amount each addXp call of the model adds
XpAmount == 500
\* number of distinct achievement ids
MaxAchievements == 2

(***************************************************************************)
(* Program constants                                                       *)
(***************************************************************************)
\* flush(): this.config.maxRetries || 3
DefaultMaxRetries == 3
\* track(): this.config.batchSize || 10
DefaultBatchSize == 10

Categories == {"necessary", "analytics", "marketing", "personalization"}

\* EventType enum of the core package plus the analysis types and the
\* un-enumerated types the application passes to track()
EnumTypes == {"page_view", "snack_start", "snack_complete", "snack_abandon",
              "click", "scroll", "hover", "form_submit", "share",
              "consent_change", "achievement_unlock", "data_export",
              "data_deletion"}
AnalysisTypes == {"click_dna", "scroll_behavior", "privacy_leak"}
OtherTypes == {"identify", "keyboard_dna", "app_initialized"}
AllTypes == EnumTypes \cup AnalysisTypes \cup OtherTypes

\* the type the Track action of the queue engine is called with: one that
\* the analytics category gates (the automatic page_view and the
\* consent_change events are the necessary ones)
TrackTypes == {"click"}

\* one type per branch of the gating table
GateTypes == {"page_view", "click", "share", "click_dna", "identify"}

EventIds == 1..MaxEvents

VARIABLES
  consent,      \* DataSnackSDK.consent
  queue,        \* DataSnackSDK.queue : sequence of QueuedEvent
  isOnline,     \* DataSnackSDK.isOnline
  maxRetries,   \* DataSnackSDK.config.maxRetries
  inflight,     \* flush() calls awaiting sendEvents: set of batches
  nextId,       \* next event id (crypto.randomUUID stand-in)
  attempts,     \* per event: number of sends that contained it
  fails,        \* per event: number of failed sends that contained it
  okSends,      \* per event: number of successful sends that contained it
  dropped,      \* events dropped by flush after exhausting retries
  persisted,    \* per event: rows inserted by the server
  sdk,          \* DataSnackSDK: sessionId, userId, flushTimer, config.debug
  log,          \* console of the SDK: the last 'Event queued' line
  user,         \* a User entity value
  serverConfig, \* ServerTracker.config
  env,          \* process.env of the server: which settings are present
  events,       \* table events: sequence of rows
  users,        \* table users: one row per user id
  timers,       \* pending setTimeout callbacks of scheduleAnonymization
  now,          \* server clock, in days
  response,     \* outcome of the last server operation
  posts,        \* POSTs issued to the GTM server
  anonymizeRuns,\* per user: runs of anonymize_user_data (saturating)
  ev,           \* TrackingEvent: receiver of the last transformation
  out           \* TrackingEvent: result of the last transformation

sdkVars == <<consent, queue, isOnline, maxRetries, inflight, nextId, attempts,
             fails, okSends, dropped, persisted, sdk, log>>

serverVars == <<serverConfig, env, events, users, timers, now, response,
                posts, anonymizeRuns>>

eventVars == <<ev, out>>

vars == <<sdkVars, user, serverVars, eventVars>>

(***************************************************************************)
(* Pure helpers                                                            *)
(***************************************************************************)
IdsOf(s) == {s[i].id : i \in DOMAIN s}

(***************************************************************************)
(* DataSnackSDK.canTrack                                                   *)
(***************************************************************************)
\* variant: 'share' is missing from the marketing branch
canTrack_ShareUngated(eventType, c) ==
  IF eventType \in {"page_view", "consent_change"} THEN TRUE
  ELSE IF eventType \in {"snack_start", "snack_complete", "click", "scroll"}
       THEN c.analytics
  ELSE IF eventType \in {"click_dna", "scroll_behavior", "privacy_leak"}
       THEN c.personalization
  ELSE c.analytics

canTrack(eventType, c) ==
  IF eventType \in {"page_view", "consent_change"} THEN TRUE
  ELSE IF eventType \in {"snack_start", "snack_complete", "click", "scroll"}
       THEN c.analytics
  ELSE IF eventType \in {"share"} THEN c.marketing
  ELSE IF eventType \in {"click_dna", "scroll_behavior", "privacy_leak"}
       THEN c.personalization
  ELSE c.analytics

(***************************************************************************)
(* DataSnackSDK: queue, flush, retry                                       *)
(***************************************************************************)
\* the consent a new DataSnackSDK starts with
InitialConsent ==
  [necessary |-> TRUE, analytics |-> FALSE, marketing |-> FALSE,
   personalization |-> FALSE]

\* a QueuedEvent as track() builds it
NewQueuedEvent(id, type) == [id |-> id, type |-> type, retries |-> 0]

\* this.config.maxRetries || 3
EffectiveMaxRetries(mr) == IF mr = 0 THEN DefaultMaxRetries ELSE mr

\* this.config.batchSize || 10
EffectiveBatchSize == IF BatchSize = 0 THEN DefaultBatchSize ELSE BatchSize

\* variant: the offline return does not look at force
FlushStarts_IgnoreForce(q, online, force) == Len(q) # 0 /\ online

\* variant: the offline test is inverted, a flush starts only offline or forced
FlushStarts_OfflineOnly(q, online, force) == Len(q) # 0 /\ (~online \/ force)

\* flush(force): the two early returns
FlushStarts(q, online, force) == Len(q) # 0 /\ (online \/ force)

\* variant: the swap copies the queue without clearing it
FlushQueue_Keep(q, online, force) == q

\* flush(force): this.queue after the swap
FlushQueue(q, online, force) ==
  IF FlushStarts(q, online, force) THEN <<>> ELSE q

\* flush(force): the pending sendEvents(eventsToSend) calls after the swap;
\* a batch is the sequence eventsToSend
FlushInflight(q, inf, online, force) ==
  IF FlushStarts(q, online, force) THEN inf \cup {q} ELSE inf

\* per event, the number of sendEvents calls that contained it
FlushAttempts(q, att, online, force) ==
  [i \in EventIds |->
     IF FlushStarts(q, online, force) /\ i \in IdsOf(q)
     THEN att[i] + 1 ELSE att[i]]

\* variant: the requeue test compares with <=
MayRetry_Inclusive(e, mr) == e.retries <= EffectiveMaxRetries(mr)

\* the requeue test of the catch block
MayRetry(e, mr) == e.retries < EffectiveMaxRetries(mr)

\* flush(): the catch block, eventsToSend.forEach(... this.queue.unshift(event))
RECURSIVE RequeueLoop(_, _, _)
RequeueLoop(eventsToSend, q, mr) ==
  IF eventsToSend = <<>> THEN q
  ELSE LET e == Head(eventsToSend)
           q1 == IF MayRetry(e, mr)
                 THEN <<[e EXCEPT !.retries = e.retries + 1]>> \o q
                 ELSE q
       IN RequeueLoop(Tail(eventsToSend), q1, mr)

\* variant: each retried event is assigned to the queue instead of unshifted
RECURSIVE RequeueAssignLoop(_, _, _)
RequeueAssignLoop(eventsToSend, q, mr) ==
  IF eventsToSend = <<>> THEN q
  ELSE LET e == Head(eventsToSend)
           q1 == IF MayRetry(e, mr)
                 THEN <<[e EXCEPT !.retries = e.retries + 1]>>
                 ELSE q
       IN RequeueAssignLoop(Tail(eventsToSend), q1, mr)

Requeue_Assign(eventsToSend, q, mr) ==
  RequeueAssignLoop(eventsToSend, q, mr)

Requeue(eventsToSend, q, mr) == RequeueLoop(eventsToSend, q, mr)

\* events of a failed batch that the catch block does not requeue
Exhausted(eventsToSend, mr) ==
  {eventsToSend[i].id :
     i \in {j \in DOMAIN eventsToSend : ~MayRetry(eventsToSend[j], mr)}}

\* variant: the new event is unshifted to the head of the queue
TrackBody_Unshift(type, c) ==
  IF ~canTrack(type, c)
  THEN UNCHANGED <<queue, inflight, nextId, attempts>>
  ELSE LET pushed == <<NewQueuedEvent(nextId, type)>> \o queue
           full == Len(pushed) >= EffectiveBatchSize
       IN /\ nextId' = nextId + 1
          /\ queue' = IF full THEN FlushQueue(pushed, isOnline, FALSE)
                      ELSE pushed
          /\ inflight' = IF full
                         THEN FlushInflight(pushed, inflight, isOnline, FALSE)
                         ELSE inflight
          /\ attempts' = IF full
                         THEN FlushAttempts(pushed, attempts, isOnline, FALSE)
                         ELSE attempts

\* variant: the auto-flush test compares with >
TrackBody_Strict(type, c) ==
  IF ~canTrack(type, c)
  THEN UNCHANGED <<queue, inflight, nextId, attempts>>
  ELSE LET pushed == Append(queue, NewQueuedEvent(nextId, type))
           full == Len(pushed) > EffectiveBatchSize
       IN /\ nextId' = nextId + 1
          /\ queue' = IF full THEN FlushQueue(pushed, isOnline, FALSE)
                      ELSE pushed
          /\ inflight' = IF full
                         THEN FlushInflight(pushed, inflight, isOnline, FALSE)
                         ELSE inflight
          /\ attempts' = IF full
                         THEN FlushAttempts(pushed, attempts, isOnline, FALSE)
                         ELSE attempts

\* track(type): gate, build, push, auto-flush
TrackBody(type, c) ==
  IF ~canTrack(type, c)
  THEN UNCHANGED <<queue, inflight, nextId, attempts>>
  ELSE LET pushed == Append(queue, NewQueuedEvent(nextId, type))
           full == Len(pushed) >= EffectiveBatchSize
       IN /\ nextId' = nextId + 1
          /\ queue' = IF full THEN FlushQueue(pushed, isOnline, FALSE)
                      ELSE pushed
          /\ inflight' = IF full
                         THEN FlushInflight(pushed, inflight, isOnline, FALSE)
                         ELSE inflight
          /\ attempts' = IF full
                         THEN FlushAttempts(pushed, attempts, isOnline, FALSE)
                         ELSE attempts

\* properties are modelled for the consent_change event only
NoProperties == <<>>

\* the fields of the QueuedEvent track() pushes: TrackingEvent.create(...)
\* .withSession(this.sessionId), spread with retries: 0. The event that
\* event.withUser(this.userId) returns is not assigned, so the userId is the
\* one create() sets.
QueuedEventOf(id, type, properties, s) ==
  [id |-> id, userId |-> "null", sessionId |-> s.sessionId, type |-> type,
   name |-> type, properties |-> properties, retries |-> 0]

\* track(type, properties): console.log('Event queued:', queuedEvent) under
\* config.debug
TrackLog(type, properties, c, s) ==
  IF canTrack(type, c) /\ s.debug
  THEN QueuedEventOf(nextId, type, properties, s)
  ELSE log

Track(type) ==
  /\ nextId <= MaxEvents
  /\ TrackBody(type, consent)
  /\ log' = TrackLog(type, NoProperties, consent, sdk)
  /\ UNCHANGED <<consent, isOnline, maxRetries, fails, okSends, dropped,
                 persisted, user, sdk, serverVars, eventVars>>

\* the Partial<ConsentState> objects setConsent is called with
PartialConsents == UNION {[D -> BOOLEAN] : D \in SUBSET Categories}

\* the grants and revocations of analytics alone
AnalyticsConsents == [{"analytics"} -> BOOLEAN]

\* setConsent: { ...this.consent, ...consent }
MergeConsent(c, p) ==
  [k \in Categories |-> IF k \in DOMAIN p THEN p[k] ELSE c[k]]

\* setConsent: the properties of the consent_change event
ConsentChangeProperties(c, p) ==
  [oldConsent |-> c, newConsent |-> MergeConsent(c, p),
   changedCategories |-> DOMAIN p]

\* setConsent(partial): merge, then track('consent_change')
SetConsent(p) ==
  /\ nextId <= MaxEvents
  /\ consent' = MergeConsent(consent, p)
  /\ TrackBody("consent_change", consent')
  /\ log' = TrackLog("consent_change", ConsentChangeProperties(consent, p),
                     consent', sdk)
  /\ UNCHANGED <<isOnline, maxRetries, fails, okSends, dropped, persisted,
                 user, sdk, serverVars, eventVars>>

\* the public convenience methods of the SDK
Methods == {"page", "click", "scroll", "snackStart", "snackComplete", "share",
            "trackClickDNA", "trackScrollBehavior", "trackPrivacyLeaks"}

\* the event type each convenience method passes to track()
MethodType(m) ==
  CASE m = "page" -> "page_view"
    [] m = "click" -> "click"
    [] m = "scroll" -> "scroll"
    [] m = "snackStart" -> "snack_start"
    [] m = "snackComplete" -> "snack_complete"
    [] m = "share" -> "share"
    [] m = "trackClickDNA" -> "click_dna"
    [] m = "trackScrollBehavior" -> "scroll_behavior"
    [] m = "trackPrivacyLeaks" -> "privacy_leak"

\* the early return a convenience method makes before it calls track():
\* trackClickDNA returns unless personalization is granted,
\* trackScrollBehavior returns unless analytics is granted
MethodProceeds(m, c) ==
  CASE m = "trackClickDNA" -> c.personalization
    [] m = "trackScrollBehavior" -> c.analytics
    [] OTHER -> TRUE

\* a call of the convenience method m (with a non-empty pattern, list of
\* positions or list of leaks)
Call(m) ==
  /\ nextId <= MaxEvents
  /\ IF MethodProceeds(m, consent)
     THEN /\ TrackBody(MethodType(m), consent)
          /\ log' = TrackLog(MethodType(m), NoProperties, consent, sdk)
     ELSE UNCHANGED <<queue, inflight, nextId, attempts, log>>
  /\ UNCHANGED <<consent, isOnline, maxRetries, fails, okSends, dropped,
                 persisted, user, sdk, serverVars, eventVars>>

\* flush(force) called from a trigger
Flush(force) ==
  /\ queue' = FlushQueue(queue, isOnline, force)
  /\ inflight' = FlushInflight(queue, inflight, isOnline, force)
  /\ attempts' = FlushAttempts(queue, attempts, isOnline, force)
  /\ UNCHANGED <<consent, isOnline, maxRetries, nextId, fails, okSends,
                 dropped, persisted, user, sdk, log, serverVars, eventVars>>

\* setInterval(() => this.flush(), flushInterval), until clearInterval
TimerFlush == sdk.flushTimer /\ Flush(FALSE)

\* visibilitychange to hidden, beforeunload: this.flush(true)
ForcedFlush == Flush(TRUE)

\* variant: the online handler sets the flag and does not flush
GoOnline_NoFlush ==
  /\ ~isOnline
  /\ isOnline' = TRUE
  /\ UNCHANGED <<consent, queue, maxRetries, inflight, nextId, attempts,
                 fails, okSends, dropped, persisted, user, sdk, log,
                 serverVars, eventVars>>

\* window 'online': isOnline = true; flush()
GoOnline ==
  /\ ~isOnline
  /\ isOnline' = TRUE
  /\ queue' = FlushQueue(queue, TRUE, FALSE)
  /\ inflight' = FlushInflight(queue, inflight, TRUE, FALSE)
  /\ attempts' = FlushAttempts(queue, attempts, TRUE, FALSE)
  /\ UNCHANGED <<consent, maxRetries, nextId, fails, okSends, dropped,
                 persisted, user, sdk, log, serverVars, eventVars>>

\* window 'offline': isOnline = false
GoOffline ==
  /\ isOnline
  /\ isOnline' = FALSE
  /\ UNCHANGED <<consent, queue, maxRetries, inflight, nextId, attempts,
                 fails, okSends, dropped, persisted, user, sdk, log,
                 serverVars, eventVars>>

\* the server handles the request of a batch: handleTrackingRequest ->
\* trackBatch -> track -> insert, one row per event of the batch
ServerPersist(b, rows) ==
  [i \in EventIds |-> IF i \in IdsOf(b) THEN rows[i] + 1 ELSE rows[i]]

\* variant: the try block puts the batch back in front of the queue
SendOk_Requeue(b) ==
  /\ b \in inflight
  /\ inflight' = inflight \ {b}
  /\ queue' = b \o queue
  /\ persisted' = ServerPersist(b, persisted)
  /\ okSends' = [i \in EventIds |->
                   IF i \in IdsOf(b) THEN okSends[i] + 1 ELSE okSends[i]]
  /\ UNCHANGED <<consent, isOnline, maxRetries, nextId, attempts, fails,
                 dropped, user, sdk, log, serverVars, eventVars>>

\* sendEvents resolves: the server handled the request and response.ok
SendOk(b) ==
  /\ b \in inflight
  /\ inflight' = inflight \ {b}
  /\ persisted' = ServerPersist(b, persisted)
  /\ okSends' = [i \in EventIds |->
                   IF i \in IdsOf(b) THEN okSends[i] + 1 ELSE okSends[i]]
  /\ UNCHANGED <<consent, queue, isOnline, maxRetries, nextId, attempts,
                 fails, dropped, user, sdk, log, serverVars, eventVars>>

\* flush(): the catch block
FlushCatch(b) ==
  /\ inflight' = inflight \ {b}
  /\ queue' = Requeue(b, queue, maxRetries)
  /\ dropped' = dropped \cup Exhausted(b, maxRetries)
  /\ fails' = [i \in EventIds |->
                 IF i \in IdsOf(b) THEN fails[i] + 1 ELSE fails[i]]

\* sendEvents throws before the server has handled the request (fetch
\* rejected by a network error)
SendFail(b) ==
  /\ b \in inflight
  /\ FlushCatch(b)
  /\ UNCHANGED <<consent, isOnline, maxRetries, nextId, attempts, okSends,
                 persisted, user, sdk, log, serverVars, eventVars>>

\* variant: the abort of the timeout ends the flush without the catch block
SendTimeout_Discard(b) ==
  /\ b \in inflight
  /\ inflight' = inflight \ {b}
  /\ fails' = [i \in EventIds |->
                 IF i \in IdsOf(b) THEN fails[i] + 1 ELSE fails[i]]
  /\ persisted' = ServerPersist(b, persisted)
  /\ UNCHANGED <<consent, queue, isOnline, maxRetries, nextId, attempts,
                 okSends, dropped, user, sdk, log, serverVars, eventVars>>

\* sendEvents throws after the server has handled the request: the abort of
\* the timeout fires, or the response is lost, while the rows are inserted
SendTimeout(b) ==
  /\ b \in inflight
  /\ FlushCatch(b)
  /\ persisted' = ServerPersist(b, persisted)
  /\ UNCHANGED <<consent, isOnline, maxRetries, nextId, attempts, okSends,
                 user, sdk, log, serverVars, eventVars>>

\* the non-success statuses the ingestion endpoint answers with
FailStatuses == {"400", "500"}

\* sendEvents throws on !response.ok: the server answered with a client or
\* server error and inserted no row
SendStatus(b, status) ==
  /\ b \in inflight
  /\ status \in FailStatuses
  /\ FlushCatch(b)
  /\ UNCHANGED <<consent, isOnline, maxRetries, nextId, attempts, okSends,
                 persisted, user, sdk, log, serverVars, eventVars>>

\* number of session ids one run may generate
MaxSessions == 2

\* identify(userId): this.userId = userId, then track('identify') under
\* analytics consent
Identify(userId) ==
  /\ sdk' = [sdk EXCEPT !.userId = userId]
  /\ IF consent.analytics
     THEN /\ nextId <= MaxEvents
          /\ TrackBody("identify", consent)
          /\ log' = TrackLog("identify", NoProperties, consent, sdk')
     ELSE UNCHANGED <<queue, inflight, nextId, attempts, log>>
  /\ UNCHANGED <<consent, isOnline, maxRetries, fails, okSends, dropped,
                 persisted, user, serverVars, eventVars>>

\* reset(): no user, a new session id, an empty queue
Reset ==
  /\ sdk.sessionId < MaxSessions
  /\ sdk' = [sdk EXCEPT !.userId = "null", !.sessionId = sdk.sessionId + 1]
  /\ queue' = <<>>
  /\ UNCHANGED <<consent, isOnline, maxRetries, inflight, nextId, attempts,
                 fails, okSends, dropped, persisted, log, user, serverVars,
                 eventVars>>

\* variant: destroy() flushes and leaves the interval timer running
Destroy_KeepTimer ==
  /\ queue' = FlushQueue(queue, isOnline, TRUE)
  /\ inflight' = FlushInflight(queue, inflight, isOnline, TRUE)
  /\ attempts' = FlushAttempts(queue, attempts, isOnline, TRUE)
  /\ UNCHANGED <<consent, isOnline, maxRetries, nextId, fails, okSends,
                 dropped, persisted, sdk, log, user, serverVars, eventVars>>

\* destroy(): clearInterval(this.flushTimer); this.flush(true), not awaited
Destroy ==
  /\ sdk' = [sdk EXCEPT !.flushTimer = FALSE]
  /\ queue' = FlushQueue(queue, isOnline, TRUE)
  /\ inflight' = FlushInflight(queue, inflight, isOnline, TRUE)
  /\ attempts' = FlushAttempts(queue, attempts, isOnline, TRUE)
  /\ UNCHANGED <<consent, isOnline, maxRetries, nextId, fails, okSends,
                 dropped, persisted, log, user, serverVars, eventVars>>

(***************************************************************************)
(* User entity                                                             *)
(***************************************************************************)
\* addXp: Math.floor(newXp / 1000) + 1
XpPerLevel == 1000

\* User.createAnonymous
createAnonymous ==
  [categories |-> [necessary |-> TRUE, analytics |-> FALSE,
                   marketing |-> FALSE, personalization |-> FALSE],
   totalXp |-> 0, level |-> 1, achievements |-> {},
   deletionRequested |-> FALSE]

\* User.grantConsent(categories)
grantConsent(u, cats) ==
  [u EXCEPT !.categories =
     [k \in Categories |-> IF k \in cats THEN TRUE ELSE u.categories[k]]]

\* variant: the loop has no test for 'necessary'
revokeConsent_Unguarded(u, cats) ==
  [u EXCEPT !.categories =
     [k \in Categories |-> IF k \in cats THEN FALSE ELSE u.categories[k]]]

\* User.revokeConsent(categories)
revokeConsent(u, cats) ==
  [u EXCEPT !.categories =
     [k \in Categories |->
        IF k \in cats /\ k # "necessary" THEN FALSE ELSE u.categories[k]]]

\* User.addXp(amount)
addXp(u, amount) ==
  [u EXCEPT !.totalXp = u.totalXp + amount,
            !.level = ((u.totalXp + amount) \div XpPerLevel) + 1]

\* User.unlockAchievement(id)
unlockAchievement(u, a) ==
  IF a \in u.achievements THEN u
  ELSE [u EXCEPT !.achievements = u.achievements \cup {a}]

\* User.requestDeletion
requestDeletion(u) == [u EXCEPT !.deletionRequested = TRUE]

GrantConsent(cats) ==
  /\ user' = grantConsent(user, cats)
  /\ UNCHANGED <<sdkVars, serverVars, eventVars>>

RevokeConsent(cats) ==
  /\ user' = revokeConsent(user, cats)
  /\ UNCHANGED <<sdkVars, serverVars, eventVars>>

AddXp ==
  /\ user.totalXp < MaxXpSteps * XpAmount
  /\ user' = addXp(user, XpAmount)
  /\ UNCHANGED <<sdkVars, serverVars, eventVars>>

UnlockAchievement(a) ==
  /\ user' = unlockAchievement(user, a)
  /\ UNCHANGED <<sdkVars, serverVars, eventVars>>

RequestDeletion ==
  /\ user' = requestDeletion(user)
  /\ UNCHANGED <<sdkVars, serverVars, eventVars>>

(***************************************************************************)
(* TrackingEvent entity                                                    *)
(***************************************************************************)
\* JavaScript null and undefined
Null == "null"
Undefined == "undefined"

\* an absent Date, and an absent user agent string
NoTime == 0 - 1
UndefinedUa == <<Undefined>>

UserIds == {"u1"}
SessionIds == {"", "s1"}

\* a user agent is a string over a letter and the space
UaChars == {"M", " "}
MaxUaLen == 3
UserAgents == UNION {[1..n -> UaChars] : n \in 0..MaxUaLen}

\* keys of the properties map: the three anonymize() deletes and another one
SensitiveKeys == {"email", "name", "phone"}
PropKeys == SensitiveKeys \cup {"url"}
PropertyMaps == UNION {[K -> {"v"}] : K \in SUBSET PropKeys}

MaxTime == 2
Times == 0..MaxTime

EventFields == {"id", "userId", "sessionId", "type", "name", "properties",
                "context", "timestamp", "serverTimestamp"}

\* new TrackingEvent(...): the values of the model
EventValues ==
  [id : {1}, userId : UserIds \cup {Null}, sessionId : SessionIds,
   type : {"page_view"}, name : {"page_view"}, properties : PropertyMaps,
   context : [userAgent : UserAgents \cup {UndefinedUa}, url : {"/"}],
   timestamp : {0}, serverTimestamp : Times \cup {NoTime}]

\* s.split(' ')[0]
FirstToken(s) ==
  IF \E i \in DOMAIN s : s[i] = " "
  THEN SubSeq(s, 1, (CHOOSE i \in DOMAIN s :
                       /\ s[i] = " "
                       /\ \A j \in 1..(i - 1) : s[j] # " ") - 1)
  ELSE s

\* truthiness of an optional string: undefined and '' are falsy
Truthy(s) == s # UndefinedUa /\ s # <<>>

\* { ...properties } followed by delete of the keys
Without(props, keys) == [k \in (DOMAIN props) \ keys |-> props[k]]

\* variant: the phone key is kept
anonymize_KeepPhone(e) ==
  [e EXCEPT !.userId = Null,
            !.properties = Without(@, {"email", "name"}),
            !.context = [@ EXCEPT !.userAgent =
                           IF Truthy(@) THEN FirstToken(@) ELSE @]]

\* TrackingEvent.anonymize
anonymize(e) ==
  [e EXCEPT !.userId = Null,
            !.properties = Without(@, SensitiveKeys),
            !.context = [@ EXCEPT !.userAgent =
                           IF Truthy(@) THEN FirstToken(@) ELSE @]]

\* variant: binding the user resets the session
withUser_DropSession(e, userId) == [e EXCEPT !.userId = userId, !.sessionId = ""]

\* TrackingEvent.withUser
withUser(e, userId) == [e EXCEPT !.userId = userId]

\* TrackingEvent.withSession
withSession(e, sessionId) == [e EXCEPT !.sessionId = sessionId]

\* TrackingEvent.withServerTimestamp, t standing for new Date()
withServerTimestamp(e, t) == [e EXCEPT !.serverTimestamp = t]

\* a transformation is called on the current event: the receiver is left as
\* it is (every method builds its result with new TrackingEvent and copies of
\* the maps), the result becomes the current event
Anonymize ==
  /\ ev' = out
  /\ out' = anonymize(out)
  /\ UNCHANGED <<sdkVars, user, serverVars>>

WithUser(userId) ==
  /\ ev' = out
  /\ out' = withUser(out, userId)
  /\ UNCHANGED <<sdkVars, user, serverVars>>

WithSession(sessionId) ==
  /\ ev' = out
  /\ out' = withSession(out, sessionId)
  /\ UNCHANGED <<sdkVars, user, serverVars>>

WithServerTimestamp(t) ==
  /\ ev' = out
  /\ out' = withServerTimestamp(out, t)
  /\ UNCHANGED <<sdkVars, user, serverVars>>

(***************************************************************************)
(* ServerTracker: track, trackBatch, forwardToGTMServer and the handlers   *)
(***************************************************************************)
MaxRows == 2
MaxBatch == 2

\* what stands for the string 'Unknown': a user agent of one token
UnknownUa == <<"M">>

\* TrackingEvent.create on the server, where no navigator exists
create(type) ==
  [id |-> 1, userId |-> Null, sessionId |-> "", type |-> type, name |-> type,
   properties |-> [k \in {} |-> "v"],
   context |-> [userAgent |-> UnknownUa, url |-> "/"],
   timestamp |-> 0, serverTimestamp |-> NoTime]

\* the ambient runtime: whether the globals navigator and Intl are defined
Runtimes == [navigator : BOOLEAN, Intl : BOOLEAN]

\* the Partial<EventContext> objects over a set of keys. Context values are
\* strings told apart by where they come from: "supplied" by the caller,
\* "navigator.userAgent", "navigator.language" and "Intl.timeZone" by the
\* runtime; the one falsy string a caller can supply is '', drawn for the
\* user agent
Contexts(keys) ==
  UNION {{c \in [K -> {"", "supplied"}] :
            \A k \in K : c[k] = "" => k = "userAgent"}
           : K \in SUBSET keys}

\* context.k of a partial context
Field(context, k) == IF k \in DOMAIN context THEN context[k] ELSE Undefined

\* a || b on optional strings
Or(a, b) == IF a \notin {Undefined, Null, ""} THEN a ELSE b

\* TrackingEvent.create: fullContext, of whose twelve keys the three that are
\* filled from the runtime and one that is copied (url) are modelled; a key of
\* the argument that is not one of the twelve is not copied
fullContext(context, rt) ==
  [userAgent |-> Or(Field(context, "userAgent"),
                    IF rt.navigator THEN "navigator.userAgent" ELSE "Unknown"),
   url |-> Field(context, "url"),
   timezone |-> Or(Field(context, "timezone"),
                   IF rt.Intl THEN "Intl.timeZone" ELSE Undefined),
   language |-> Or(Field(context, "language"),
                   IF rt.navigator THEN "navigator.language" ELSE Undefined)]

\* TrackingEvent.create(type, name, properties, context) in a runtime
createIn(type, context, rt) ==
  [create(type) EXCEPT !.context = fullContext(context, rt)]

\* TrackingEvent.create is called: the created event is the current event
Create(type, context, rt) ==
  /\ out' = createIn(type, context, rt)
  /\ ev' = out'
  /\ UNCHANGED <<sdkVars, user, serverVars>>

\* this.db is a client: enableDatabase was set and createServerDatabaseClient
\* found its environment variables
db == serverConfig.enableDatabase /\ env.supabase

\* the tracker of the tracking route: new ServerTracker({enableDatabase: true,
\* enableGTMServer: false, ...})
RouteConfig == [enableDatabase |-> TRUE, enableGTMServer |-> FALSE]

\* outcome of an awaited insert: the row is stored, the client returns an
\* error object, or the await rejects
InsertOutcomes == {"ok", "error", "throws"}

\* outcome of the POST to the GTM server: a success status, another status,
\* or a network error
ForwardOutcomes == {"ok", "status", "network"}

\* a NULL user_agent column
NullUa == <<Null>>

\* variant: the insert does not set is_anonymous, the column takes its
\* default FALSE
EventRow_DefaultFlag(e) ==
  [user_id |-> e.userId, event_type |-> e.type, is_anonymous |-> FALSE,
   ip_address |-> Null, user_agent |-> NullUa]

\* the row track() inserts; ip_address and user_agent are not part of it
EventRow(e) ==
  [user_id |-> e.userId, event_type |-> e.type,
   is_anonymous |-> (e.userId = Null), ip_address |-> Null,
   user_agent |-> NullUa]

\* track() reaches the insert
Inserts(cfg) == cfg.enableDatabase /\ env.supabase

\* track() reaches the fetch of forwardToGTMServer
Forwards(cfg) == cfg.enableGTMServer /\ env.gtmServerUrl

\* variant: the catch of forwardToGTMServer rethrows
forwardToGTMServer_Rethrow(fwd) ==
  [posted |-> IF env.gtmServerUrl THEN <<fwd>> ELSE <<>>,
   threw |-> env.gtmServerUrl /\ fwd # "ok"]

\* ServerTracker.forwardToGTMServer: no POST without GTM_SERVER_URL; a bad
\* status or a network error is logged and swallowed
forwardToGTMServer(fwd) ==
  [posted |-> IF env.gtmServerUrl THEN <<fwd>> ELSE <<>>,
   threw |-> FALSE]

\* ServerTracker.track: the rows it adds, the POSTs it issues, whether it
\* rejects. The result of the insert is not looked at.
track(cfg, e, ins, fwd) ==
  LET insertThrew == Inserts(cfg) /\ ins = "throws"
      f == IF ~insertThrew /\ cfg.enableGTMServer
           THEN forwardToGTMServer(fwd)
           ELSE [posted |-> <<>>, threw |-> FALSE]
  IN [rows |-> IF Inserts(cfg) /\ ins = "ok" THEN <<EventRow(e)>> ELSE <<>>,
      posted |-> f.posted,
      threw |-> insertThrew \/ f.threw]

\* variant: the events are tracked one after the other and the first track
\* that rejects ends the batch
RECURSIVE trackBatch_Sequential(_, _, _, _)
trackBatch_Sequential(cfg, batch, ins, fwd) ==
  IF batch = <<>>
  THEN [rows |-> <<>>, posted |-> <<>>, threw |-> FALSE]
  ELSE LET n == Len(batch)
           init == trackBatch_Sequential(cfg, SubSeq(batch, 1, n - 1), ins, fwd)
           last == IF init.threw
                   THEN [rows |-> <<>>, posted |-> <<>>, threw |-> FALSE]
                   ELSE track(cfg, batch[n], ins[n], fwd[n])
       IN [rows |-> init.rows \o last.rows,
           posted |-> init.posted \o last.posted,
           threw |-> init.threw \/ last.threw]

\* ServerTracker.trackBatch: Promise.all over track(event); every track runs,
\* the batch rejects when one of them does
RECURSIVE trackBatch(_, _, _, _)
trackBatch(cfg, batch, ins, fwd) ==
  IF batch = <<>>
  THEN [rows |-> <<>>, posted |-> <<>>, threw |-> FALSE]
  ELSE LET n == Len(batch)
           init == trackBatch(cfg, SubSeq(batch, 1, n - 1), ins, fwd)
           last == track(cfg, batch[n], ins[n], fwd[n])
       IN [rows |-> init.rows \o last.rows,
           posted |-> init.posted \o last.posted,
           threw |-> init.threw \/ last.threw]

\* request bodies: not JSON, JSON without events, events not an array, or an
\* array of elements; an element is well formed, an object with fields of the
\* wrong type or missing, or null
BodyKinds == {"invalid_json", "no_events", "not_array", "batch"}
Shapes == {"ok", "bad_fields", "null"}

\* a userId is told apart on well-formed elements only
Elements(types, uids) ==
  [type : types, userId : uids, shape : {"ok"}]
    \cup [type : types, userId : {Null}, shape : Shapes \ {"ok"}]

Batches(types, uids) ==
  UNION {[1..n -> Elements(types, uids)] : n \in 0..MaxBatch}

Bodies(types, uids) ==
  [kind : {"batch"}, events : Batches(types, uids)]
    \cup [kind : BodyKinds \ {"batch"}, events : {<<>>}]

\* the outcomes a batch can meet under a configuration
InsertOutcomesOf(cfg, batch) ==
  [DOMAIN batch -> IF Inserts(cfg) THEN InsertOutcomes ELSE {"none"}]

ForwardOutcomesOf(cfg, batch) ==
  [DOMAIN batch -> IF Forwards(cfg) THEN ForwardOutcomes ELSE {"none"}]

\* TrackingRequestSchema.parse succeeds
SchemaAccepts(body) ==
  /\ body.kind = "batch"
  /\ \A i \in DOMAIN body.events : body.events[i].shape = "ok"

\* events.map(...) of the route: withUser only for a userId
RouteEvents(batch) ==
  [i \in DOMAIN batch |->
     IF batch[i].userId # Null
     THEN withUser(withSession(create(batch[i].type), "s1"), batch[i].userId)
     ELSE withSession(create(batch[i].type), "s1")]

\* events.map(...) of handleTrackingRequest: the userId is not read
HandlerEvents(batch) ==
  [i \in DOMAIN batch |-> withSession(create(batch[i].type), "s1")]

Respond(op, status, body) == [op |-> op, status |-> status, request |-> body]

\* the batch is tracked and the request answered
Processed(op, cfg, body, evs, ins, fwd) ==
  LET r == trackBatch(cfg, evs, ins, fwd)
  IN /\ events' = events \o r.rows
     /\ posts' = posts \o r.posted
     /\ response' = Respond(op, IF r.threw THEN "500" ELSE "204", body)

Rejected(op, status, body) ==
  /\ response' = Respond(op, status, body)
  /\ UNCHANGED <<events, posts>>

\* POST of app/api/track/route.ts
POST(body, ins, fwd) ==
  /\ Len(events) + Len(body.events) <= MaxRows
  /\ Len(posts) + Len(body.events) <= MaxRows
  /\ IF body.kind = "invalid_json"
     THEN Rejected("POST", "500", body)
     ELSE IF ~SchemaAccepts(body)
     THEN Rejected("POST", "400", body)
     ELSE Processed("POST", RouteConfig, body, RouteEvents(body.events),
                    ins, fwd)
  /\ UNCHANGED <<sdkVars, user, serverConfig, env, users, timers, now,
                 anonymizeRuns, eventVars>>

\* ServerTracker.handleTrackingRequest(request, tracker)
handleTrackingRequest(body, ins, fwd) ==
  /\ Len(events) + Len(body.events) <= MaxRows
  /\ Len(posts) + Len(body.events) <= MaxRows
  /\ IF body.kind = "invalid_json"
     THEN Rejected("handleTrackingRequest", "500", body)
     ELSE IF body.kind # "batch"
     THEN Rejected("handleTrackingRequest", "400", body)
     ELSE IF \E i \in DOMAIN body.events : body.events[i].shape = "null"
     THEN Rejected("handleTrackingRequest", "500", body)
     ELSE Processed("handleTrackingRequest", serverConfig, body,
                    HandlerEvents(body.events), ins, fwd)
  /\ UNCHANGED <<sdkVars, user, serverConfig, env, users, timers, now,
                 anonymizeRuns, eventVars>>

\* the headers of a request the route reads: user-agent, x-forwarded-for (a
\* comma-separated list, here the sequence of its parts) and x-real-ip;
\* headers.get answers null for a header that is not there (<<Null>> for the
\* list)
Headers ==
  [userAgent : {Null, "header.user-agent"},
   forwarded : {<<Null>>, <<"">>, <<"10.0.0.1", "10.0.0.2">>},
   realIp : {Null, "10.0.0.9"}]

\* the user agent and the address the route takes from the headers:
\* forwarded?.split(',')[0] || realIp || 'unknown'
ObservedUserAgent(headers) == Or(headers.userAgent, "Unknown")
ObservedIp(headers) ==
  Or(Or(IF headers.forwarded = <<Null>> THEN Undefined
        ELSE headers.forwarded[1],
        headers.realIp),
     "unknown")

\* the callback of events.map in the route, for an element that carries a
\* context; the context argument it passes to TrackingEvent.create is
\* { ...eventData.context, userAgent, ip: clientIp, ... }
RouteEvent(elem, headers, rt) ==
  LET context ==
        [k \in DOMAIN elem.context \cup {"userAgent", "ip"} |->
           IF k = "userAgent" THEN ObservedUserAgent(headers)
           ELSE IF k = "ip" THEN ObservedIp(headers)
           ELSE elem.context[k]]
      e == withSession(createIn(elem.type, context, rt), "s1")
  IN IF elem.userId # Null THEN withUser(e, elem.userId) ELSE e

\* POST of app/api/track/route.ts for a body of one element, with the headers
\* of the request: the event handed to trackBatch is the current event
PostWithContext(elem, headers, rt, ins) ==
  /\ Len(events) < MaxRows
  /\ LET e == RouteEvent(elem, headers, rt)
         r == trackBatch(RouteConfig, <<e>>, <<ins>>, <<"none">>)
     IN /\ out' = e
        /\ ev' = e
        /\ events' = events \o r.rows
        /\ response' = Respond("POST", IF r.threw THEN "500" ELSE "204",
                               [kind |-> "batch", events |-> <<elem>>,
                                headers |-> headers])
  /\ UNCHANGED <<sdkVars, user, serverConfig, env, users, timers, now, posts,
                 anonymizeRuns>>

\* a direct call of tracker.track(event), as the consent route and the
\* middleware make it
TrackerTrack(type, userId, ins, fwd) ==
  /\ Len(events) < MaxRows
  /\ Len(posts) < MaxRows
  /\ LET e == IF userId # Null THEN withUser(create(type), userId)
              ELSE create(type)
         r == track(serverConfig, e, ins, fwd)
     IN /\ events' = events \o r.rows
        /\ posts' = posts \o r.posted
        /\ response' = Respond("track", IF r.threw THEN "rejected" ELSE "ok",
                               [type |-> type, userId |-> userId])
  /\ UNCHANGED <<sdkVars, user, serverConfig, env, users, timers, now,
                 anonymizeRuns, eventVars>>

(***************************************************************************)
(* TrackingService.track                                                   *)
(***************************************************************************)
ConsentStates == [necessary : {TRUE}, analytics : BOOLEAN,
                  marketing : BOOLEAN, personalization : BOOLEAN]

\* the consent the server holds for a user: users.consent_categories, and
\* nothing granted where there is no record
ResolvedConsent(userId) ==
  IF userId \in UserIds THEN users[userId].consent_categories
  ELSE InitialConsent

\* ConsentManager.checkConsent(userId)
checkConsent(userId) ==
  LET c == ResolvedConsent(userId)
  IN [hasAnalytics |-> c.analytics, hasMarketing |-> c.marketing,
      hasPersonalization |-> c.personalization]

\* outcome of EventStore.store and of EventStore.publish
StoreOutcomes == {"ok", "rejects"}

\* TrackingService.track(type, name, properties, context, userId)
ServiceTrack(type, userId, st, pub) ==
  /\ Len(events) < MaxRows
  /\ LET event == create(type)
         c == checkConsent(userId)
         req == [type |-> type, userId |-> userId]
     IN IF ~c.hasAnalytics
        THEN IF type \in {"page_view", "consent_change"}
             THEN /\ events' = IF st = "ok"
                               THEN Append(events, EventRow(anonymize(event)))
                               ELSE events
                  /\ response' = Respond("TrackingService.track",
                                   IF st = "ok" THEN "ok" ELSE "rejected", req)
             ELSE /\ events' = events
                  /\ response' = Respond("TrackingService.track", "ok", req)
        ELSE LET enriched == IF userId # Null THEN withUser(event, userId)
                             ELSE event
             IN /\ events' = IF st = "ok"
                             THEN Append(events, EventRow(enriched))
                             ELSE events
                /\ response' = Respond("TrackingService.track",
                                 IF st = "ok" /\ pub = "ok" THEN "ok"
                                 ELSE "rejected", req)
  /\ UNCHANGED <<sdkVars, user, serverConfig, env, users, timers, now, posts,
                 anonymizeRuns, eventVars>>

(***************************************************************************)
(* GDPRTracker and anonymize_user_data                                     *)
(***************************************************************************)
MaxTimers == 2
MaxDays == 45
MaxRuns == 2

\* the retention delay of scheduleAnonymization, in days: 1000*60*60*24*30 ms
RetentionDays == 30
MsPerSecond == 1000
SecondsPerDay == 60 * 60 * 24

\* the largest delay a timer of the runtime takes, in milliseconds
TimeoutMax == 2147483647

\* the clock of the model advances by half the retention delay
DaysPerTick == RetentionDays \div 2

\* setTimeout(callback, seconds * 1000): a delay above TimeoutMax is set to
\* one millisecond; the result in whole days
TimerDelayDays(seconds) ==
  IF seconds > TimeoutMax \div MsPerSecond THEN 0
  ELSE seconds \div SecondsPerDay

\* a row of users as the schema creates it
UserRow(ip) ==
  [fingerprint_hash |-> <<"fp">>, consent_categories |-> InitialConsent,
   consent_ip_address |-> ip, deletion_requested_at |-> NoTime,
   anonymized_at |-> NoTime]

\* SPLIT_PART(user_agent, ' ', 1)
SplitPart(s) == IF s = NullUa THEN NullUa ELSE FirstToken(s)

\* variant: the placeholder is derived from the stored hash
anonymize_user_data_Rehash(U, E, user_uuid, t) ==
  [users |-> [U EXCEPT ![user_uuid] =
                [@ EXCEPT !.fingerprint_hash = <<"anonymized">> \o @,
                          !.consent_ip_address = Null,
                          !.anonymized_at = t]],
   events |-> [i \in DOMAIN E |->
                 IF E[i].user_id = user_uuid
                 THEN [E[i] EXCEPT !.user_id = Null,
                                   !.ip_address = Null,
                                   !.user_agent = SplitPart(@),
                                   !.is_anonymous = TRUE]
                 ELSE E[i]]]

\* variant: the event rows of the user are deleted instead of rewritten
anonymize_user_data_Delete(U, E, user_uuid, t) ==
  [users |-> [U EXCEPT ![user_uuid] =
                [@ EXCEPT !.fingerprint_hash = <<"anonymized", user_uuid>>,
                          !.consent_ip_address = Null,
                          !.anonymized_at = t]],
   events |-> SelectSeq(E, LAMBDA row : row.user_id # user_uuid)]

\* function anonymize_user_data(user_uuid) of the schema
anonymize_user_data(U, E, user_uuid, t) ==
  [users |-> [U EXCEPT ![user_uuid] =
                [@ EXCEPT !.fingerprint_hash = <<"anonymized", user_uuid>>,
                          !.consent_ip_address = Null,
                          !.anonymized_at = t]],
   events |-> [i \in DOMAIN E |->
                 IF E[i].user_id = user_uuid
                 THEN [E[i] EXCEPT !.user_id = Null,
                                   !.ip_address = Null,
                                   !.user_agent = SplitPart(@),
                                   !.is_anonymous = TRUE]
                 ELSE E[i]]]

\* the not-configured error of the GDPR operations
NotConfigured(op, userId) ==
  /\ response' = Respond(op, "Database not configured", userId)
  /\ UNCHANGED <<events, users, anonymizeRuns>>

\* GDPRTracker.requestDataExport
RequestDataExport(userId) ==
  /\ IF ~db THEN NotConfigured("requestDataExport", userId)
     ELSE /\ response' = Respond("requestDataExport", "ok", userId)
          /\ UNCHANGED <<events, users, anonymizeRuns>>
  /\ UNCHANGED timers
  /\ UNCHANGED <<sdkVars, user, serverConfig, env, now, posts, eventVars>>

\* variant: the database guard is missing
RequestDataDeletion_Unguarded(userId) ==
  /\ Len(timers) < MaxTimers
  /\ users' = [users EXCEPT ![userId].deletion_requested_at = now]
  /\ timers' = Append(timers,
       [userId |-> userId, requestedAt |-> now,
        due |-> now + TimerDelayDays(RetentionDays * SecondsPerDay)])
  /\ response' = Respond("requestDataDeletion", "ok", userId)
  /\ UNCHANGED <<events, anonymizeRuns>>
  /\ UNCHANGED <<sdkVars, user, serverConfig, env, now, posts, eventVars>>

\* GDPRTracker.requestDataDeletion with scheduleAnonymization
RequestDataDeletion(userId) ==
  /\ Len(timers) < MaxTimers
  /\ IF ~db
     THEN /\ NotConfigured("requestDataDeletion", userId)
          /\ UNCHANGED timers
     ELSE /\ users' = [users EXCEPT ![userId].deletion_requested_at = now]
          /\ timers' = Append(timers,
               [userId |-> userId, requestedAt |-> now,
                due |-> now + TimerDelayDays(RetentionDays * SecondsPerDay)])
          /\ response' = Respond("requestDataDeletion", "ok", userId)
          /\ UNCHANGED <<events, anonymizeRuns>>
  /\ UNCHANGED <<sdkVars, user, serverConfig, env, now, posts, eventVars>>

\* GDPRTracker.anonymizeUserData
anonymizeUserData(userId) ==
  IF ~db THEN NotConfigured("anonymizeUserData", userId)
  ELSE LET r == anonymize_user_data(users, events, userId, now)
       IN /\ users' = r.users
          /\ events' = r.events
          /\ anonymizeRuns' = [anonymizeRuns EXCEPT ![userId] =
                                 IF @ < MaxRuns THEN @ + 1 ELSE @]
          /\ response' = Respond("anonymizeUserData", "ok", userId)

\* anonymizeUserData called on the tracker
AnonymizeUserData(userId) ==
  /\ anonymizeUserData(userId)
  /\ UNCHANGED timers
  /\ UNCHANGED <<sdkVars, user, serverConfig, env, now, posts, eventVars>>

\* the callback of setTimeout runs
TimerFires(i) ==
  /\ i \in DOMAIN timers
  /\ timers[i].due <= now
  /\ anonymizeUserData(timers[i].userId)
  /\ timers' = SubSeq(timers, 1, i - 1) \o SubSeq(timers, i + 1, Len(timers))
  /\ UNCHANGED <<sdkVars, user, serverConfig, env, now, posts, eventVars>>

\* the server process restarts: the pending setTimeout callbacks live in the
\* memory of the process and are gone, the tables are in the database and stay
Restart ==
  /\ timers' = <<>>
  /\ UNCHANGED <<sdkVars, user, serverConfig, env, events, users, now,
                 response, posts, anonymizeRuns, eventVars>>

\* time passes
Tick ==
  /\ now + DaysPerTick <= MaxDays
  /\ now' = now + DaysPerTick
  /\ UNCHANGED <<sdkVars, user, serverConfig, env, events, users, timers,
                 response, posts, anonymizeRuns, eventVars>>

(***************************************************************************)
(* Specifications                                                          *)
(***************************************************************************)
ZeroPerEvent == [i \in EventIds |-> 0]

\* the server as constructed by default, with its database configured, an
\* empty events table and one user
NoResponse == Respond("none", "none", <<>>)

InitTables ==
  /\ events = <<>>
  /\ users = [u \in UserIds |-> UserRow(Null)]

InitServerIdle ==
  /\ timers = <<>>
  /\ now = 0
  /\ response = NoResponse
  /\ posts = <<>>
  /\ anonymizeRuns = [u \in UserIds |-> 0]

InitBackend ==
  /\ serverConfig = [enableDatabase |-> TRUE, enableGTMServer |-> TRUE]
  /\ env = [supabase |-> TRUE, gtmServerUrl |-> FALSE]
  /\ InitTables
  /\ InitServerIdle

\* no event under transformation
InitEntity ==
  /\ ev = create("page_view")
  /\ out = ev

\* the maxRetries the queue engine is configured with
RetryConfigs == {1}

\* the fields of a new DataSnackSDK: the first generated session id, no
\* user, the interval timer of initialize() running, config.debug as given
NewSdk(debug) ==
  [sessionId |-> 1, userId |-> "null", flushTimer |-> TRUE, debug |-> debug]

\* nothing logged
NoLog == QueuedEventOf(0, "none", NoProperties, NewSdk(FALSE))

\* new DataSnackSDK(config) in a browser: initialize() has read
\* navigator.onLine and tracked the automatic page_view
InitSDK ==
  /\ consent = InitialConsent
  /\ queue = <<NewQueuedEvent(1, "page_view")>>
  /\ isOnline \in BOOLEAN
  /\ inflight = {}
  /\ nextId = 2
  /\ attempts = ZeroPerEvent
  /\ fails = ZeroPerEvent
  /\ okSends = ZeroPerEvent
  /\ dropped = {}
  /\ persisted = ZeroPerEvent
  /\ sdk = NewSdk(FALSE)
  /\ log = NoLog
  /\ user = createAnonymous

Init ==
  /\ InitSDK
  /\ maxRetries \in RetryConfigs
  /\ InitBackend
  /\ InitEntity

\* the queue engine: tracking, consent of analytics, the flush triggers and the
\* outcome of each send
Next ==
  \/ \E t \in TrackTypes : Track(t)
  \/ \E p \in AnalyticsConsents : SetConsent(p)
  \/ TimerFlush
  \/ ForcedFlush
  \/ GoOnline
  \/ GoOffline
  \/ \E b \in inflight : SendOk(b)
  \/ \E b \in inflight : SendFail(b)

Spec == Init /\ [][Next]_vars

\* the consent state machine: every partial consent object, one event type per
\* branch of the gating table
NextConsent ==
  \/ \E t \in GateTypes : Track(t)
  \/ \E p \in PartialConsents : SetConsent(p)

SpecConsent == Init /\ [][NextConsent]_vars

\* the User entity
NextUser ==
  \/ \E cats \in SUBSET Categories : GrantConsent(cats)
  \/ \E cats \in SUBSET Categories : RevokeConsent(cats)
  \/ AddXp
  \/ \E a \in 1..MaxAchievements : UnlockAchievement(a)
  \/ RequestDeletion

SpecUser == Init /\ [][NextUser]_vars

\* the SDK configured with maxRetries: 0
InitZero ==
  /\ InitSDK
  /\ maxRetries = 0
  /\ InitBackend
  /\ InitEntity

NextZero ==
  \/ Track("page_view")
  \/ TimerFlush
  \/ \E b \in inflight : SendOk(b)
  \/ \E b \in inflight : SendFail(b)

SpecZero == InitZero /\ [][NextZero]_vars

\* the default configuration (maxRetries 3) with three page views queued while
\* offline; further page views, the flush triggers and every outcome of a
\* send, the server included
ScenarioEvents == {1, 2, 3}

InitRetry ==
  /\ consent = InitialConsent
  /\ queue = <<NewQueuedEvent(1, "page_view"), NewQueuedEvent(2, "page_view"),
               NewQueuedEvent(3, "page_view")>>
  /\ isOnline = FALSE
  /\ maxRetries = DefaultMaxRetries
  /\ inflight = {}
  /\ nextId = Cardinality(ScenarioEvents) + 1
  /\ attempts = ZeroPerEvent
  /\ fails = ZeroPerEvent
  /\ okSends = ZeroPerEvent
  /\ dropped = {}
  /\ persisted = ZeroPerEvent
  /\ sdk = NewSdk(FALSE)
  /\ log = NoLog
  /\ user = createAnonymous
  /\ InitBackend
  /\ InitEntity

NextRetry ==
  \/ Track("page_view")
  \/ TimerFlush
  \/ ForcedFlush
  \/ GoOnline
  \/ GoOffline
  \/ \E b \in inflight : SendOk(b)
  \/ \E b \in inflight : SendFail(b)
  \/ \E b \in inflight : SendTimeout(b)
  \/ \E b \in inflight : \E status \in FailStatuses : SendStatus(b, status)
  \/ Destroy

SpecRetry == InitRetry /\ [][NextRetry]_vars

\* the SDK configured with debug: true, online: consent of analytics and
\* marketing, identify and reset, tracking and delivery
SessionTypes == {"page_view", "click"}
SessionConsents ==
  UNION {[D -> BOOLEAN] : D \in SUBSET {"analytics", "marketing"}}

InitSession ==
  /\ consent = InitialConsent
  /\ queue = <<NewQueuedEvent(1, "page_view")>>
  /\ isOnline = TRUE
  /\ maxRetries = DefaultMaxRetries
  /\ inflight = {}
  /\ nextId = 2
  /\ attempts = ZeroPerEvent
  /\ fails = ZeroPerEvent
  /\ okSends = ZeroPerEvent
  /\ dropped = {}
  /\ persisted = ZeroPerEvent
  /\ sdk = NewSdk(TRUE)
  /\ log = QueuedEventOf(1, "page_view", NoProperties, sdk)
  /\ user = createAnonymous
  /\ InitBackend
  /\ InitEntity

NextSession ==
  \/ \E t \in SessionTypes : Track(t)
  \/ \E p \in SessionConsents : SetConsent(p)
  \/ \E userId \in UserIds : Identify(userId)
  \/ Reset
  \/ TimerFlush
  \/ \E b \in inflight : SendOk(b)

SpecSession == InitSession /\ [][NextSession]_vars

\* the convenience methods under every consent the three optional categories
\* can be set to, one category per setConsent call
NextMethods ==
  \/ \E m \in Methods : Call(m)
  \/ \E k \in {"analytics", "marketing", "personalization"} :
       \E p \in [{k} -> BOOLEAN] : SetConsent(p)
  \/ \E b \in inflight : SendOk(b)

SpecMethods == Init /\ [][NextMethods]_vars

\* the default configuration with three page views queued while offline; the
\* device comes online and stays online, the page views the run still has are
\* tracked, the interval timer flushes and every send ends, well or not. The
\* timer keeps firing (setInterval) and every pending send ends (fetch
\* resolves, rejects or is aborted by the timeout).
NextDrain ==
  \/ Track("page_view")
  \/ GoOnline
  \/ TimerFlush
  \/ \E b \in inflight : SendOk(b)
  \/ \E b \in inflight : SendFail(b)
  \/ \E b \in inflight : SendTimeout(b)
  \/ \E b \in inflight : \E status \in FailStatuses : SendStatus(b, status)

FairDrain ==
  /\ WF_vars(TimerFlush)
  /\ WF_vars(\E b \in inflight :
               \/ SendOk(b)
               \/ SendFail(b)
               \/ SendTimeout(b)
               \/ \E status \in FailStatuses : SendStatus(b, status))

SpecDrain == InitRetry /\ [][NextDrain]_vars /\ FairDrain

\* the SDK configured with debug: true, online: page views, reset, the timer
\* flush and both outcomes of a send
NextReset ==
  \/ Track("page_view")
  \/ Reset
  \/ TimerFlush
  \/ \E b \in inflight : SendOk(b)
  \/ \E b \in inflight : SendFail(b)

SpecReset == InitSession /\ [][NextReset]_vars

\* the client as constructed, online, where the server is what runs
InitClient ==
  /\ InitSDK
  /\ isOnline = TRUE
  /\ maxRetries = DefaultMaxRetries

\* the TrackingEvent entity: every event value, every transformation
InitEvent ==
  /\ InitClient
  /\ InitBackend
  /\ out \in EventValues
  /\ ev = out

NextEvent ==
  \/ Anonymize
  \/ \E userId \in UserIds : WithUser(userId)
  \/ \E sessionId \in SessionIds : WithSession(sessionId)
  \/ \E t \in Times : WithServerTimestamp(t)

SpecEvent == InitEvent /\ [][NextEvent]_vars

\* the ingestion endpoint under every configuration of the tracker and of
\* its environment
ServerConfigs == [enableDatabase : BOOLEAN, enableGTMServer : BOOLEAN]
Envs == [supabase : BOOLEAN, gtmServerUrl : BOOLEAN]
IngestBodies == Bodies({"click"}, {Null, "u1"})

\* handleTrackingRequest never reads an element's userId
HandlerBodies == Bodies({"click"}, {Null})

\* the elements POST hands to trackBatch: none unless the schema accepts
RouteTracked(body) == IF SchemaAccepts(body) THEN body.events ELSE <<>>

\* the elements handleTrackingRequest hands to trackBatch: none unless the
\* body is an array free of null elements
HandlerTracked(body) ==
  IF body.kind = "batch"
     /\ \A i \in DOMAIN body.events : body.events[i].shape # "null"
  THEN body.events ELSE <<>>

InitIngest ==
  /\ InitClient
  /\ InitEntity
  /\ serverConfig \in ServerConfigs
  /\ env \in Envs
  /\ InitTables
  /\ InitServerIdle

NextIngest ==
  \/ \E body \in IngestBodies :
       \E ins \in InsertOutcomesOf(RouteConfig, RouteTracked(body)) :
         \E fwd \in ForwardOutcomesOf(RouteConfig, RouteTracked(body)) :
           POST(body, ins, fwd)
  \/ \E body \in HandlerBodies :
       \E ins \in InsertOutcomesOf(serverConfig, HandlerTracked(body)) :
         \E fwd \in ForwardOutcomesOf(serverConfig, HandlerTracked(body)) :
           handleTrackingRequest(body, ins, fwd)

SpecIngest == InitIngest /\ [][NextIngest]_vars

\* the ingestion endpoint with the database and the forwarder configured,
\* receiving batches that parse
ParsedBodies == {body \in IngestBodies : SchemaAccepts(body)}

InitBatch ==
  /\ InitClient
  /\ InitEntity
  /\ serverConfig = [enableDatabase |-> TRUE, enableGTMServer |-> TRUE]
  /\ env = [supabase |-> TRUE, gtmServerUrl |-> TRUE]
  /\ InitTables
  /\ InitServerIdle

NextBatch ==
  \/ \E body \in ParsedBodies :
       \E ins \in InsertOutcomesOf(RouteConfig, body.events) :
         \E fwd \in ForwardOutcomesOf(RouteConfig, body.events) :
           POST(body, ins, fwd)
  \/ \E body \in ParsedBodies \cap HandlerBodies :
       \E ins \in InsertOutcomesOf(serverConfig, body.events) :
         \E fwd \in ForwardOutcomesOf(serverConfig, body.events) :
           handleTrackingRequest(body, ins, fwd)

SpecBatch == InitBatch /\ [][NextBatch]_vars

\* TrackingEvent.create in every runtime, with every context over the four
\* modelled keys
NextCreate ==
  \E type \in {"page_view", "click", "share"}, rt \in Runtimes :
    \E context \in Contexts({"userAgent", "url", "timezone", "language"}) :
      Create(type, context, rt)

InitCreate ==
  /\ InitClient
  /\ InitBackend
  /\ InitEntity

SpecCreate == InitCreate /\ [][NextCreate]_vars

\* the route of the ingestion endpoint receiving elements with a context
\* under every set of headers
InitEnrich ==
  /\ InitClient
  /\ InitEntity
  /\ serverConfig = RouteConfig
  /\ env = [supabase |-> TRUE, gtmServerUrl |-> FALSE]
  /\ InitTables
  /\ InitServerIdle

\* well-formed elements with a client-supplied context; on the server Intl
\* is defined and navigator is in some versions of the runtime
NextEnrich ==
  \E elem \in [type : {"click"}, userId : UserIds \cup {Null}, shape : {"ok"},
               context : Contexts({"userAgent", "ip"})],
     headers \in Headers, rt \in {r \in Runtimes : r.Intl} :
    \E ins \in InsertOutcomes : PostWithContext(elem, headers, rt, ins)

SpecEnrich == InitEnrich /\ [][NextEnrich]_vars

\* server-side consent: every consent record of the user, events with and
\* without a user, through TrackingService.track and ServerTracker.track
ServerGateTypes == {"page_view", "click", "share", "click_dna"}

InitGate ==
  /\ InitClient
  /\ InitEntity
  /\ serverConfig = [enableDatabase |-> TRUE, enableGTMServer |-> FALSE]
  /\ env = [supabase |-> TRUE, gtmServerUrl |-> FALSE]
  /\ events = <<>>
  /\ \E c \in ConsentStates :
       users = [u \in UserIds |-> [UserRow(Null) EXCEPT
                                     !.consent_categories = c]]
  /\ InitServerIdle

NextGate ==
  \/ \E type \in ServerGateTypes, userId \in UserIds \cup {Null} :
       \E st \in StoreOutcomes, pub \in StoreOutcomes :
         ServiceTrack(type, userId, st, pub)
  \/ \E type \in ServerGateTypes, userId \in UserIds \cup {Null} :
       \E ins \in InsertOutcomes :
         TrackerTrack(type, userId, ins, "none")

SpecGate == InitGate /\ [][NextGate]_vars

\* the GDPR lifecycle next to ingestion for the same user, with and without
\* a configured database; the events table may hold a row of the user that
\* carries an address and a user agent
SeedRow ==
  [user_id |-> "u1", event_type |-> "click", is_anonymous |-> FALSE,
   ip_address |-> "10.0.0.1", user_agent |-> <<"M", " ", "M">>]

InitGdpr ==
  /\ InitClient
  /\ InitEntity
  /\ serverConfig = [enableDatabase |-> TRUE, enableGTMServer |-> FALSE]
  /\ env \in [supabase : BOOLEAN, gtmServerUrl : {FALSE}]
  /\ events \in {<<>>, <<SeedRow>>}
  /\ \E ip \in {Null, "10.0.0.1"} : users = [u \in UserIds |-> UserRow(ip)]
  /\ InitServerIdle

NextGdpr ==
  \/ \E userId \in UserIds : RequestDataExport(userId)
  \/ \E userId \in UserIds : RequestDataDeletion(userId)
  \/ \E userId \in UserIds : AnonymizeUserData(userId)
  \/ \E i \in DOMAIN timers : TimerFires(i)
  \/ Tick
  \/ \E userId \in UserIds \cup {Null} :
       \E ins \in InsertOutcomesOf(serverConfig, <<1>>) :
         TrackerTrack("click", userId, ins[1], "none")

SpecGdpr == InitGdpr /\ [][NextGdpr]_vars

\* the deletion lifecycle of a server that may restart: requests made while
\* the retention delay still ends within the days of the model, the timers,
\* the clock, and restarts of the process; the runtime runs a due callback
\* and time passes
NextDurable ==
  \/ \E userId \in UserIds :
       now + RetentionDays <= MaxDays /\ RequestDataDeletion(userId)
  \/ \E i \in DOMAIN timers : TimerFires(i)
  \/ Tick
  \/ Restart

FairDurable ==
  /\ WF_vars(Tick)
  /\ WF_vars(\E i \in DOMAIN timers : TimerFires(i))

SpecDurable == InitGdpr /\ [][NextDurable]_vars /\ FairDurable

(***************************************************************************)
(* Claims                                                                  *)
(***************************************************************************)
\* the category table of the gating policy, as stated
RequiredCategory(t) ==
  CASE t \in {"page_view", "consent_change"} -> "necessary"
    [] t \in {"snack_start", "snack_complete", "click", "scroll"} -> "analytics"
    [] t = "share" -> "marketing"
    [] t \in {"click_dna", "scroll_behavior", "privacy_leak"}
         -> "personalization"
    [] OTHER -> "analytics"

Allowed(t, c) ==
  IF RequiredCategory(t) = "necessary" THEN TRUE ELSE c[RequiredCategory(t)]

\* the places of the client an event can be in
InQueue(e) == Cardinality({i \in DOMAIN queue : queue[i].id = e})

InFlightSlots == UNION {{<<b, i>> : i \in DOMAIN b} : b \in inflight}

InFlight(e) == Cardinality({x \in InFlightSlots : x[1][x[2]].id = e})

\* C1: for every event type, enumerated or not, and every consent state the
\* SDK can be in, canTrack answers what the category table says: true for the
\* necessary types, otherwise the grant of the type's category, analytics being
\* the category of every unlisted type.
C1_GatingTable ==
  \A t \in AllTypes : canTrack(t, consent) = Allowed(t, consent)

\* a share event was accepted while marketing is granted and analytics is not
C1_Witness ==
  /\ consent.marketing
  /\ ~consent.analytics
  /\ \E i \in DOMAIN queue : queue[i].type = "share"

\* what a track(t) call leaves behind
C2_TrackPost(t) ==
  IF ~Allowed(t, consent)
  THEN UNCHANGED <<queue, inflight, attempts, nextId>>
  ELSE LET pushed == Append(queue, [id |-> nextId, type |-> t, retries |-> 0])
       IN \/ queue' = pushed /\ inflight' = inflight
          \/ /\ Len(pushed) >= BatchSize
             /\ queue' = <<>>
             /\ inflight' = inflight \cup {pushed}

\* C2: a track() call of a denied type changes neither the queue nor the
\* pending sends; a track() call of an allowed type appends exactly one new
\* event with retries 0 at the tail of the queue (and, when that fills the
\* batch and the flush guards pass, that queue is what the call sends).
C2_TrackGating == [][\A t \in TrackTypes : Track(t) => C2_TrackPost(t)]_vars

\* after analytics was granted a click was tracked behind the consent_change
\* event of the grant
C2_Witness ==
  /\ consent.analytics
  /\ Len(queue) >= 2
  /\ queue[Len(queue) - 1].type = "consent_change"
  /\ queue[Len(queue)] = NewQueuedEvent(queue[Len(queue) - 1].id + 1, "click")
  /\ attempts[queue[Len(queue)].id] = 0

\* C3: no send starts with an event whose type the consent in force at that
\* moment denies.
C3_SendRespectsConsent ==
  [][\A b \in inflight' \ inflight :
       \A i \in DOMAIN b : Allowed(b[i].type, consent')]_vars

\* C4: whatever setConsent was called with, the necessary category is granted.
C4_NecessaryStaysTrue == consent.necessary

\* what a revokeConsent(cats) call leaves behind
C5_RevokePost(cats) ==
  /\ user'.categories["necessary"] = user.categories["necessary"]
  /\ \A k \in cats \ {"necessary"} : user'.categories[k] = FALSE
  /\ \A k \in Categories \ cats : user'.categories[k] = user.categories[k]

\* C5: the User entity keeps necessary granted under every grantConsent and
\* revokeConsent; a revokeConsent whose list holds 'necessary' leaves it as it
\* was, revokes the other listed categories and touches no unlisted one.
C5_UserNecessary ==
  /\ [](user.categories["necessary"])
  /\ [][\A cats \in SUBSET Categories :
          RevokeConsent(cats) => C5_RevokePost(cats)]_vars

\* marketing was revoked from a user who keeps analytics and personalization
C5_Witness ==
  user.categories = [necessary |-> TRUE, analytics |-> TRUE,
                     marketing |-> FALSE, personalization |-> TRUE]

\* what the failed send of batch b leaves behind
C6_FailPost(b) ==
  LET keep == {b[i] : i \in {j \in DOMAIN b : b[j].retries < maxRetries}}
      n == Cardinality(keep)
  IN /\ Len(queue') = n + Len(queue)
     /\ {queue'[i] : i \in 1..n} =
          {[e EXCEPT !.retries = e.retries + 1] : e \in keep}
     /\ \A i \in DOMAIN queue : queue'[n + i] = queue[i]
     /\ \A i \in DOMAIN b : b[i] \notin keep => b[i].id \notin IdsOf(queue')

\* C6: with maxRetries >= 1, when the send of a batch fails, the queue
\* afterwards is the batch's events whose retries was below maxRetries, each
\* with retries one higher, in front of everything the queue held at the
\* failure (the events tracked since the swap); the other events of the batch
\* are not in the queue.
C6_FailedFlushRequeues ==
  [][\A b \in inflight :
       (maxRetries >= 1 /\ SendFail(b)) => C6_FailPost(b)]_vars

\* one event was dropped after its retry failed, another was requeued in front
\* of an event tracked after the swap
C6_Witness ==
  /\ dropped # {}
  /\ \E i, j \in DOMAIN queue :
       /\ i < j
       /\ queue[i].retries = 1
       /\ queue[j].retries = 0
       /\ attempts[queue[j].id] = 0
       /\ queue[j].id > queue[i].id

\* C7: every accepted event is in exactly one place: the queue, one pending
\* batch, delivered by a successful send, or dropped after its retries; an
\* event tracked while a batch is pending is therefore in the queue and not in
\* that batch, and no event is in two successful sends.
C7_NeverLostNeverTwice ==
  \A e \in EventIds :
    /\ InQueue(e) + InFlight(e) + okSends[e]
         + (IF e \in dropped THEN 1 ELSE 0) = (IF e < nextId THEN 1 ELSE 0)
    /\ okSends[e] <= 1

\* an event was tracked after the swap of a batch that is still pending
C7_Witness ==
  /\ queue # <<>>
  /\ attempts[queue[Len(queue)].id] = 0
  /\ \E b \in inflight : \A i \in DOMAIN b : b[i].id < queue[Len(queue)].id

\* C8: at no time are two sends of the instance pending.
C8_FlushSerialized == Cardinality(inflight) <= 1

\* C9: every queued or pending event has 0 <= retries <= maxRetries and no
\* event is in more than maxRetries + 1 sends.
C9_RetriesBounded ==
  /\ \A i \in DOMAIN queue :
       queue[i].retries >= 0 /\ queue[i].retries <= maxRetries
  /\ \A x \in InFlightSlots : x[1][x[2]].retries <= maxRetries
  /\ \A e \in EventIds : attempts[e] <= maxRetries + 1

C11_ServerGating ==
  [][Len(events') > Len(events) =>
       Allowed(response'.request.type,
               ResolvedConsent(response'.request.userId))]_vars

\* the request the last handler answered was a batch whose events were all
\* persisted by that handler
AllPersisted ==
  /\ response'.request.kind = "batch"
  /\ Len(response'.request.events) > 0
  /\ Len(events') = Len(events) + Len(response'.request.events)

C13_SuccessMeansPersisted ==
  [][response'.status = "204" =>
       Len(events') = Len(events) + Len(response'.request.events)]_vars

\* a body that is not JSON, has no events array, or has an element that
\* fails validation
Malformed(body) ==
  \/ body.kind # "batch"
  \/ \E i \in DOMAIN body.events : body.events[i].shape # "ok"

\* C14: a malformed batch is answered with a client error and nothing of it
\* is persisted or forwarded.
C14_MalformedRejected ==
  [][Malformed(response'.request) =>
       /\ response'.status = "400"
       /\ events' = events
       /\ posts' = posts]_vars

\* t is the first space-delimited token of s
IsFirstToken(t, s) ==
  /\ Len(t) <= Len(s)
  /\ \A i \in DOMAIN t : t[i] = s[i] /\ t[i] # " "
  /\ Len(t) < Len(s) => s[Len(t) + 1] = " "

\* what anonymize() returns for the event it is called on
C15_AnonymizePost ==
  /\ out'.userId = Null
  /\ DOMAIN out'.properties =
       (DOMAIN out.properties) \ {"email", "name", "phone"}
  /\ \A k \in DOMAIN out'.properties : out'.properties[k] = out.properties[k]
  /\ IF out.context.userAgent = UndefinedUa
     THEN out'.context.userAgent = UndefinedUa
     ELSE IsFirstToken(out'.context.userAgent, out.context.userAgent)
  /\ out'.context.url = out.context.url
  /\ \A f \in EventFields \ {"userId", "properties", "context"} :
       out'[f] = out[f]
  /\ ev' = out
  /\ anonymize(out') = out'

\* C15: anonymize() returns an event with userId null, properties without
\* email, name and phone, the user agent cut to its first space-delimited
\* token and every other field as it was; the event it is called on is left
\* unchanged, and anonymizing the result again returns the result.
C15_AnonymizeIdempotent == [][Anonymize => C15_AnonymizePost]_vars

\* an event with a user, an email property and a user agent of two tokens was
\* anonymized
C15_Witness ==
  /\ ev.userId = "u1"
  /\ "email" \in DOMAIN ev.properties
  /\ ev.context.userAgent = <<"M", " ", "M">>
  /\ out = anonymize(ev)
  /\ out.context.userAgent = <<"M">>
  /\ out.userId = Null

\* the result differs from the receiver in the field f only, which is v, and
\* the receiver is left as it was
OneFieldSet(f, v) ==
  /\ out'[f] = v
  /\ \A g \in EventFields \ {f} : out'[g] = out[g]
  /\ ev' = out

\* C16: withUser(id), withSession(id) and withServerTimestamp() each return
\* an event whose userId, sessionId or serverTimestamp is the new value and
\* whose other fields equal the receiver's; the receiver is left unchanged.
C16_TransformationsImmutable ==
  [][/\ \A userId \in UserIds :
          WithUser(userId) => OneFieldSet("userId", userId)
     /\ \A sessionId \in SessionIds :
          WithSession(sessionId) => OneFieldSet("sessionId", sessionId)
     /\ \A t \in Times :
          WithServerTimestamp(t) => OneFieldSet("serverTimestamp", t)]_vars

\* an event bound to a session and stamped by the server was bound to a user
C16_Witness ==
  /\ ev.userId = Null
  /\ ev.sessionId = "s1"
  /\ ev.serverTimestamp # NoTime
  /\ out = withUser(ev, "u1")
  /\ out.userId = "u1"

\* the step runs anonymizeUserData for the user u
AnonymizeStep(u) ==
  \/ AnonymizeUserData(u)
  \/ \E i \in DOMAIN timers : timers[i].userId = u /\ TimerFires(i)

\* the rows of u have lost the user and the address and kept the first token
\* of the user agent; the other rows are as they were
RowsAnonymized(u) ==
  /\ Len(events') = Len(events)
  /\ \A i \in DOMAIN events :
       IF events[i].user_id = u
       THEN /\ events'[i].user_id = Null
            /\ events'[i].ip_address = Null
            /\ events'[i].is_anonymous
            /\ events'[i].event_type = events[i].event_type
            /\ IF events[i].user_agent = NullUa
               THEN events'[i].user_agent = NullUa
               ELSE IsFirstToken(events'[i].user_agent, events[i].user_agent)
       ELSE events'[i] = events[i]

\* C17: anonymize(userId) after requestDeletion(userId) rewrites the rows of
\* the user, and run again right after a run it raises no error and leaves
\* the user's identifying hash, the cleared address and every event row as
\* the first run left them.
C17_AnonymizeIdempotent ==
  [][\A u \in UserIds :
       (AnonymizeStep(u) /\ db /\ users[u].deletion_requested_at # NoTime) =>
         /\ response'.status = "ok"
         /\ RowsAnonymized(u)
         /\ users'[u].consent_ip_address = Null
         /\ (/\ anonymizeRuns[u] >= 1
             /\ \A i \in DOMAIN events : events[i].user_id # u) =>
              /\ users'[u].fingerprint_hash = users[u].fingerprint_hash
              /\ users'[u].consent_ip_address = users[u].consent_ip_address
              /\ events' = events]_vars

\* the user asked for deletion and was anonymized twice; the row that carried
\* the user is anonymous
C17_Witness ==
  /\ anonymizeRuns["u1"] >= 2
  /\ users["u1"].deletion_requested_at # NoTime
  /\ users["u1"].fingerprint_hash = <<"anonymized", "u1">>
  /\ Len(events) = 1
  /\ events[1].user_id = Null
  /\ events[1].user_agent = <<"M">>
  /\ events[1].is_anonymous

\* C18: once anonymize(u) has completed, no event row carries userId u,
\* whatever ingestion does for that user afterwards.
C18_NoRowAfterAnonymize ==
  \A u \in UserIds :
    users[u].anonymized_at # NoTime =>
      \A i \in DOMAIN events : events[i].user_id # u

\* C19: requestDeletion(userId) stamps deletionRequestedAt = now and changes
\* nothing else of the user's data, and the anonymization it schedules does
\* not run earlier than 30 days after the request.
C19_RetentionDelayHonoured ==
  [][/\ \A u \in UserIds :
          (RequestDataDeletion(u) /\ db) =>
            /\ users' = [users EXCEPT ![u].deletion_requested_at = now]
            /\ events' = events
     /\ \A i \in DOMAIN timers :
          TimerFires(i) => now >= timers[i].requestedAt + RetentionDays]_vars

\* C20: without a storage collaborator each GDPR operation fails with the
\* not-configured error and reads, writes and schedules nothing.
C20_NotConfigured ==
  [][\A u \in UserIds :
       (~db /\ (\/ RequestDataExport(u)
                \/ RequestDataDeletion(u)
                \/ AnonymizeUserData(u))) =>
         /\ response'.status = "Database not configured"
         /\ UNCHANGED <<users, events, timers, posts, anonymizeRuns>>]_vars

\* a deletion was requested from a tracker without a database
C20_Witness ==
  /\ ~db
  /\ response.op = "requestDataDeletion"
  /\ response.status = "Database not configured"
  /\ timers = <<>>
  /\ users["u1"].deletion_requested_at = NoTime

\* C21: every setConsent call queues exactly one consent_change event whose
\* properties carry the category map before the call, the category map
\* after it, and as changedCategories the set of the categories whose value
\* differs between the two.
C21_ConsentChangeEvent ==
  [][\A p \in SessionConsents :
       SetConsent(p) =>
         LET pushed == Append(queue, NewQueuedEvent(nextId, "consent_change"))
         IN /\ nextId' = nextId + 1
            /\ \/ queue' = pushed /\ inflight' = inflight
               \/ queue' = <<>> /\ inflight' = inflight \cup {pushed}
            /\ log'.id = nextId
            /\ log'.type = "consent_change"
            /\ log'.properties.oldConsent = consent
            /\ log'.properties.newConsent = consent'
            /\ log'.properties.changedCategories =
                 {k \in Categories : consent[k] # consent'[k]}]_vars

\* a send of the whole queue starts and the queue is left empty
SendStarts ==
  /\ queue # <<>>
  /\ queue' = <<>>
  /\ inflight' = inflight \cup {queue}
  /\ \A e \in EventIds :
       attempts'[e] = attempts[e] + (IF e \in IdsOf(queue) THEN 1 ELSE 0)

\* nothing is sent, the queue and its retries counters stay
NoSend == UNCHANGED <<queue, inflight, attempts>>

\* what a flush(force) call leaves behind
C22_FlushPost(force) ==
  IF queue # <<>> /\ (isOnline \/ force) THEN SendStarts ELSE NoSend

\* C22: flush(force) starts a send if and only if the queue is non-empty and
\* the device is online or force is true; otherwise it leaves the queue and
\* the retries counters unchanged. The flush of the timer is not forced;
\* the flushes of visibilitychange/beforeunload and of destroy() are.
C22_FlushGuard ==
  [][/\ TimerFlush => C22_FlushPost(FALSE)
     /\ ForcedFlush => C22_FlushPost(TRUE)
     /\ Destroy => C22_FlushPost(TRUE)]_vars

\* the three events queued offline are pending in one send while the device
\* is still offline and no event was sent twice
C22_Witness ==
  /\ ~isOnline
  /\ queue = <<>>
  /\ \E b \in inflight : IdsOf(b) = ScenarioEvents
  /\ \A e \in ScenarioEvents : attempts[e] = 1

\* C23: going offline leaves the queue as it is; while offline a track()
\* appends to the queue without sending, also past batchSize, and the
\* flush of the timer sends nothing; going online sends, in one send,
\* everything that is queued at that moment.
C23_OfflineOnline ==
  [][/\ GoOffline => NoSend
     /\ (~isOnline /\ Track("page_view")) =>
          /\ queue' = Append(queue, NewQueuedEvent(nextId, "page_view"))
          /\ inflight' = inflight
     /\ (~isOnline /\ TimerFlush) => NoSend
     /\ GoOnline =>
          /\ isOnline'
          /\ IF queue # <<>> THEN SendStarts ELSE NoSend]_vars

\* more events than batchSize, none of them sent before, are pending in one
\* send while the device is online
C23_Witness ==
  /\ isOnline
  /\ queue = <<>>
  /\ \E b \in inflight :
       /\ Len(b) > BatchSize
       /\ \A i \in DOMAIN b : b[i].retries = 0 /\ attempts[b[i].id] = 1

\* C24: destroy() stops the interval timer and makes one forced flush that
\* it does not wait for; from then on the timer stays stopped and starts no
\* flush.
C24_DestroyStopsTimer ==
  [][/\ Destroy => (~sdk'.flushTimer /\ C22_FlushPost(TRUE))
     /\ ~sdk.flushTimer => (~sdk'.flushTimer /\ ~TimerFlush)]_vars

\* after destroy() a page view tracked online waits in the queue, the send
\* that destroy() started still pending
C24_Witness ==
  /\ ~sdk.flushTimer
  /\ isOnline
  /\ inflight # {}
  /\ queue # <<>>
  /\ \A i \in DOMAIN queue : attempts[queue[i].id] = 0

\* C25: when the send of a batch succeeds the queue is left as it is, with
\* none of the batch's events in it (it holds what was accepted after the
\* swap and what failed sends requeued), and an event of a successful send
\* is never in a send again.
C25_DeliveredLeaves ==
  [][/\ \A b \in inflight :
          SendOk(b) => (queue' = queue /\ IdsOf(b) \cap IdsOf(queue') = {})
     /\ \A e \in EventIds :
          okSends[e] >= 1 =>
            (attempts'[e] = attempts[e] /\ e \notin IdsOf(queue'))]_vars

\* the three events were delivered by one send; the page view tracked after
\* the swap is the queue
C25_Witness ==
  /\ \A e \in ScenarioEvents : okSends[e] = 1 /\ attempts[e] = 1
  /\ inflight = {}
  /\ queue = <<NewQueuedEvent(Cardinality(ScenarioEvents) + 1, "page_view")>>

\* what a track() call that accepted an event of type t leaves behind
C26_PushPost(t) ==
  LET pushed == Append(queue, NewQueuedEvent(nextId, t))
  IN /\ (Len(pushed) >= BatchSize /\ isOnline) =>
          (queue' = <<>> /\ inflight' = inflight \cup {pushed})
     /\ Len(pushed) < BatchSize =>
          (queue' = pushed /\ inflight' = inflight)
     /\ isOnline => Len(queue') < BatchSize

\* C26: an accepted track() that brings the queue to batchSize or more
\* flushes within the call; while online the queue is shorter than
\* batchSize after every accepted track(), that of setConsent included,
\* and at any time when it holds no requeued event.
C26_AutoFlush ==
  /\ [][/\ \A t \in TrackTypes :
             (Track(t) /\ canTrack(t, consent)) => C26_PushPost(t)
        /\ \A p \in AnalyticsConsents :
             SetConsent(p) => C26_PushPost("consent_change")]_vars
  /\ []((isOnline /\ \A i \in DOMAIN queue : queue[i].retries = 0) =>
          Len(queue) < BatchSize)

\* online, a click filled the batch and the batch is pending, first send
C26_Witness ==
  /\ isOnline
  /\ queue = <<>>
  /\ \E b \in inflight :
       /\ Len(b) = BatchSize
       /\ b[Len(b)].type = "click"
       /\ \A i \in DOMAIN b : b[i].retries = 0 /\ attempts[b[i].id] = 1

\* C27: a send aborted by the timeout and a response with a non-success
\* status (a server error of unavailable storage included) go through the
\* requeue path of any failed send: the events below maxRetries are back in
\* front of the queue with retries one higher, the others are dropped.
C27_EveryFailureRequeues ==
  [][\A b \in inflight :
       (\/ SendTimeout(b)
        \/ \E status \in FailStatuses : SendStatus(b, status)) =>
         /\ C6_FailPost(b)
         /\ dropped' = dropped \cup
              {b[i].id : i \in {j \in DOMAIN b : b[j].retries >= maxRetries}}
         /\ inflight' = inflight \ {b}]_vars

\* an event the server inserted is back in the queue for its third send,
\* both sends having failed for the client
C27_Witness ==
  \E i \in DOMAIN queue :
    /\ queue[i].retries = 2
    /\ fails[queue[i].id] = 2
    /\ okSends[queue[i].id] = 0
    /\ persisted[queue[i].id] = 1

\* C28: a batch the server rejects with a client-error (validation)
\* response is not retried: its events are not put back into the queue.
C28_ValidationNotRetried ==
  [][\A b \in inflight :
       SendStatus(b, "400") => IdsOf(b) \cap IdsOf(queue') = {}]_vars

\* C29: with maxRetries configured as 0 a failed flush requeues nothing:
\* every event of the batch is dropped after its one send.
C29_ZeroRetriesDrops ==
  [][\A b \in inflight :
       (maxRetries = 0 /\ SendFail(b)) =>
         (queue' = queue /\ IdsOf(b) \subseteq dropped')]_vars

\* C30: every event track() queues carries the session id of the SDK at
\* the call and the userId of the SDK at the call: the identified user
\* after identify() and until reset(), null before and after.
C30_SessionAndUserBound ==
  [][nextId' # nextId =>
       /\ log'.id = nextId
       /\ log'.sessionId = sdk'.sessionId
       /\ log'.userId = sdk'.userId]_vars

\* a call of the convenience method m that queues an event of m's type
Queues(m) ==
  /\ Call(m)
  /\ \E s \in {queue'} \cup inflight' :
       \E i \in DOMAIN s : s[i] = NewQueuedEvent(nextId, MethodType(m))

\* C31: in every consent state, a call of a convenience method queues its
\* event if and only if the category table allows the event's type; a
\* trackScrollBehavior call queues a scroll_behavior event whenever
\* personalization is granted.
C31_ConvenienceGating ==
  nextId <= MaxEvents =>
    \A m \in Methods :
      (ENABLED Queues(m)) <=> Allowed(MethodType(m), consent)

\* the events of a batch whose own insert stored a row
Stored(cfg, evs, ins) == {i \in DOMAIN evs : Inserts(cfg) /\ ins[i] = "ok"}

\* trackBatch adds one row for each event of the batch whose own insert
\* succeeded, whatever the inserts and the forwards of the other events met
C32_BatchPost(cfg, evs, ins, fwd) ==
  LET rows == trackBatch(cfg, evs, ins, fwd).rows
  IN /\ Len(rows) = Cardinality(Stored(cfg, evs, ins))
     /\ \A i \in Stored(cfg, evs, ins) :
          \E j \in DOMAIN rows : rows[j] = EventRow(evs[i])

C33_ServerObservedFields ==
  response.op = "POST" =>
    /\ out.context.userAgent = ObservedUserAgent(response.request.headers)
    /\ "ip" \in DOMAIN out.context
    /\ out.context.ip = ObservedIp(response.request.headers)

\* a field of the created context without a placeholder: what the caller
\* supplied, else what the runtime provides, else undefined
C34_Field(context, k, provided, value) ==
  IF Field(context, k) \notin {Undefined, ""} THEN Field(context, k)
  ELSE IF provided THEN value
  ELSE Undefined

\* C34: TrackingEvent.create fills the user agent, the locale and the
\* timezone from the runtime only where the caller left the field unset and
\* the runtime provides it; a field neither supplied nor provided is absent
\* (undefined) in the created event, never a placeholder.
C34_CreateFillsOrOmits ==
  [][\A type \in {"page_view", "click", "share"}, rt \in Runtimes,
        context \in Contexts({"userAgent", "url", "timezone", "language"}) :
       Create(type, context, rt) =>
         /\ out'.context.userAgent =
              C34_Field(context, "userAgent", rt.navigator,
                        "navigator.userAgent")
         /\ out'.context.language =
              C34_Field(context, "language", rt.navigator,
                        "navigator.language")
         /\ out'.context.timezone =
              C34_Field(context, "timezone", rt.Intl, "Intl.timeZone")]_vars

\* C35: scheduling is durable: once requestDataDeletion(userId) has returned
\* (the user's deletion_requested_at is set), the user is eventually
\* anonymized, however often the server process restarts in between.
C35_SchedulingDurable ==
  \A u \in UserIds :
    (users[u].deletion_requested_at # NoTime)
      ~> (users[u].anonymized_at # NoTime)

\* C36: the store is append-only with respect to rows: no step of ingestion
\* or of the GDPR operations (export, deletion request, anonymization)
\* removes an event row or a user row; every stored event row stays in its
\* place with its type, anonymization rewriting fields of it, so the number of
\* event rows never decreases.
C36_AppendOnly ==
  [][/\ Len(events') >= Len(events)
     /\ \A i \in DOMAIN events :
          events'[i].event_type = events[i].event_type
     /\ DOMAIN users' = DOMAIN users]_vars

\* the stored row of the user was anonymized in place and other rows were
\* ingested behind it
C36_Witness ==
  /\ anonymizeRuns["u1"] >= 1
  /\ Len(events) >= 2
  /\ events[1] = [SeedRow EXCEPT !.user_id = Null, !.ip_address = Null,
                                 !.user_agent = <<"M">>,
                                 !.is_anonymous = TRUE]

\* the send of the batch b fails, by any of the ways sendEvents throws
SendFails(b) ==
  \/ SendFail(b)
  \/ SendTimeout(b)
  \/ \E status \in FailStatuses : SendStatus(b, status)

\* C37: the events a failed flush requeues keep their relative capture
\* order: of two requeued events of the failed batch, the one that came first
\* in the batch comes first in the queue afterwards.
C37_RequeueKeepsOrder ==
  [][\A b \in inflight :
       SendFails(b) =>
         \A i, j \in DOMAIN b :
           i < j =>
             \A p, r \in DOMAIN queue' :
               (queue'[p].id = b[i].id /\ queue'[r].id = b[j].id) => p < r]_vars

\* C38: reset() discards everything captured before it. While the last event
\* the SDK queued carries a session id earlier than the current one, every
\* event there is was tracked before the reset, and the queue holds none.
C38_ResetDiscards ==
  log.sessionId # sdk.sessionId => queue = <<>>

\* the last track() call of the run has been made
NoMoreTracks == nextId > MaxEvents

\* every event was delivered by a successful send or dropped by the catch
\* block, and none is queued or pending
AllLeft ==
  /\ queue = <<>>
  /\ inflight = {}
  /\ \A e \in 1..(nextId - 1) : okSends[e] > 0 \/ e \in dropped

\* C39: with the interval timer running, the device online and no further
\* track() calls, every queued event eventually leaves the client: it is
\* delivered by a successful send or dropped after maxRetries failed retries,
\* and the queue becomes and stays empty, even if every send fails.
C39_QueueDrains == (isOnline /\ NoMoreTracks) ~> []AllLeft

\* every send failed: each event was sent maxRetries + 1 times and dropped,
\* and nothing is queued or pending
C39_Witness ==
  /\ isOnline
  /\ NoMoreTracks
  /\ AllLeft
  /\ dropped = 1..MaxEvents
  /\ \A e \in 1..MaxEvents :
       okSends[e] = 0 /\ fails[e] = DefaultMaxRetries + 1

\* C40: in every reachable state of the events table, under any interleaving
\* of the inserts of ingestion and the runs of anonymize_user_data, a stored
\* row has is_anonymous = TRUE if and only if its user_id is NULL.
C40_AnonymousIffNoUser ==
  \A i \in DOMAIN events :
    events[i].is_anonymous <=> (events[i].user_id = Null)

\* the table holds a row anonymize_user_data rewrote and an event ingested
\* with the user after that run
C40_Witness ==
  /\ anonymizeRuns["u1"] >= 1
  /\ \E i \in DOMAIN events :
       /\ events[i].user_id = Null
       /\ events[i].is_anonymous
       /\ events[i].user_agent = <<"M">>
  /\ \E i \in DOMAIN events :
       /\ events[i].user_id = "u1"
       /\ ~events[i].is_anonymous

====
